---- MODULE Spec2Model ----
(***************************************************************************)
(* Model of the leap-event single page application: the pinned-events and  *)
(* events Pinia stores, the EventList / PinnedEvents views, the EventCard  *)
(* and PinnedEventCard components and the EventModal each card owns.       *)
(*                                                                         *)
(* One action is one DOM event or one store call together with the Vue     *)
(* flush that follows it (watchers, re-render, mount and unmount hooks).   *)
(***************************************************************************)
EXTENDS Integers, Sequences, FiniteSets, TLC

VARIABLES
    eventsData,       \* the bundled static dataset (data/events.json)
    events,           \* useEventStore().events
    sortedEvents,     \* EventList's computed sortedEvents (one EventCard each)
    pinnedEvents,     \* usePinnedEventsStore().pinnedEvents
    pinnedDom,        \* what the PinnedEvents template renders
    cardModalOpen,    \* EventCard isModalOpen, one per rendered EventCard (by key)
    pinnedModalOpen,  \* PinnedEventCard isModalOpen, one per mounted card (by key)
    keydownListeners, \* modal instances whose handleEscape is on window
    bodyOverflow,     \* document.body.style.overflow
    emits,            \* 'close' emits of each modal instance in the last DOM event
    toggledOdd,       \* names passed to the store's togglePin an odd number of times
    unpinnedOnce,     \* names that a direct store call removed from pinnedEvents
    lastEvent,        \* the DOM event or store call handled last
    eventListDom,     \* what the EventList template renders
    pinLabels,        \* aria-label of every rendered pin button
    wrapperState,     \* lifecycle of each EventWrapper (page composition) instance
    wrapperRenders,   \* re-renders of each EventWrapper instance since its mount
    fetchCalls,       \* fetchEvents calls made by each EventWrapper instance
    dateString,       \* the argument handed to the useTime formatters
    formatted,        \* the completion of the last useTime call
    handled           \* the handlers the last DOM event ran, in order

vars == <<eventsData, events, sortedEvents, pinnedEvents, pinnedDom,
          cardModalOpen, pinnedModalOpen, keydownListeners, bodyOverflow,
          emits, toggledOdd, unpinnedOnce, lastEvent, eventListDom, pinLabels,
          wrapperState, wrapperRenders, fetchCalls, dateString, formatted,
          handled>>

wrapperVars == <<wrapperState, wrapperRenders, fetchCalls>>

formatVars == <<dateString, formatted>>

----------------------------------------------------------------------------
(* Bounds and value universes *)

\* Largest time-string code of a catalog; code 0 is a string Date cannot parse.
MaxTime == 3

\* Largest time-string code of a payload handed directly to the pinned store.
MaxPinTime == 2

\* Longest catalog of the list specification.
MaxCatalog == 3

\* Longest catalog of the application specification.
MaxCards == 2

\* Instances of the page composition sharing the stores.
MaxPages == 2

\* Re-renders of one page composition instance.
MaxRenders == 2

\* Largest day of the month, and largest hour, of a date string handed to a
\* formatter.
MaxDay == 2

MaxHour == 1

Wrappers == 1..MaxPages

\* Event names: the identity key of both stores and the v-for key.
NameList == <<"A", "B", "C">>

Names == {NameList[i] : i \in 1..Len(NameList)}

Times == 0..MaxTime

Event == [name : Names, time : Times]

SeqNames(s) == {s[i].name : i \in 1..Len(s)}

DistinctNames(s) == \A i, j \in 1..Len(s) : i # j => s[i].name # s[j].name

RECURSIVE SeqsUpTo(_, _)
SeqsUpTo(S, n) ==
    IF n = 0 THEN {<<>>}
    ELSE LET shorter == SeqsUpTo(S, n - 1)
         IN  shorter \cup {Append(s, e) : s \in {t \in shorter : Len(t) = n - 1}, e \in S}

\* Datasets: every event has its own name (the Event invariant of the data).
Catalogs == {c \in SeqsUpTo(Event, MaxCatalog) : DistinctNames(c)}

\* Datasets of the application specification: the modal and pin code reads
\* neither the time field nor the order of the names, so one dataset of each
\* length stands for the others.
AppCatalogs ==
    {[i \in 1..k |-> [name |-> NameList[i], time |-> 1]] :
        k \in {j \in 0..MaxCards : j <= Len(NameList)}}

\* Longest catalog of the tie-order specification.
MaxTies == 4

\* Datasets of the tie-order specification: the comparator reads the time
\* field alone, so the names stand in one order and every time varies.
TieNameList == <<"A", "B", "C", "D", "E">>

TieCatalogs ==
    UNION {{[i \in 1..k |-> [name |-> TieNameList[i], time |-> f[i]]] :
               f \in [1..k -> Times]} :
           k \in {j \in 0..MaxTies : j <= Len(TieNameList)}}

\* Payloads handed to the pinned store's actions by direct calls.
PinPayloads == [name : Names, time : 1..MaxPinTime]

----------------------------------------------------------------------------
(* usePinnedEventsStore *)

isPinned(pinned, eventName) == \E i \in 1..Len(pinned) : pinned[i].name = eventName

addPinnedEventPrepend(pinned, event) ==
    IF ~(\E i \in 1..Len(pinned) : pinned[i].name = event.name)
    THEN <<event>> \o pinned
    ELSE pinned

addPinnedEventNoCheck(pinned, event) == Append(pinned, event)

addPinnedEventUpsert(pinned, event) ==
    IF \E i \in 1..Len(pinned) : pinned[i].name = event.name
    THEN [i \in 1..Len(pinned) |->
             IF pinned[i].name = event.name THEN event ELSE pinned[i]]
    ELSE Append(pinned, event)

addPinnedEvent(pinned, event) ==
    LET alreadyPinned == \E i \in 1..Len(pinned) : pinned[i].name = event.name
    IN  IF ~alreadyPinned THEN Append(pinned, event) ELSE pinned

\* splice(findIndex(...), 1) without the index check: index -1 drops the last entry.
removePinnedEventSplice(pinned, eventName) ==
    IF \E i \in 1..Len(pinned) : pinned[i].name = eventName
    THEN SelectSeq(pinned, LAMBDA e : e.name # eventName)
    ELSE SubSeq(pinned, 1, Len(pinned) - 1)

removePinnedEvent(pinned, eventName) ==
    SelectSeq(pinned, LAMBDA e : e.name # eventName)

\* findIndex: the first index whose entry has the name, or -1 (0-based as in JS).
findIndex(pinned, eventName) ==
    IF \E i \in 1..Len(pinned) : pinned[i].name = eventName
    THEN (CHOOSE i \in 1..Len(pinned) :
            /\ pinned[i].name = eventName
            /\ \A j \in 1..(i - 1) : pinned[j].name # eventName) - 1
    ELSE -1

togglePinByPayload(pinned, event) ==
    IF \E i \in 1..Len(pinned) : pinned[i] = event
    THEN removePinnedEvent(pinned, event.name)
    ELSE addPinnedEventNoCheck(pinned, event)

togglePinAddOnly(pinned, event) == addPinnedEvent(pinned, event)

togglePinReplace(pinned, event) ==
    IF \E i \in 1..Len(pinned) : pinned[i].name = event.name /\ pinned[i] # event
    THEN [i \in 1..Len(pinned) |->
             IF pinned[i].name = event.name THEN event ELSE pinned[i]]
    ELSE IF \E i \in 1..Len(pinned) : pinned[i].name = event.name
    THEN removePinnedEvent(pinned, event.name)
    ELSE addPinnedEvent(pinned, event)

togglePin(pinned, event) ==
    LET index == findIndex(pinned, event.name)
    IN  IF index > -1
        THEN removePinnedEvent(pinned, event.name)
        ELSE addPinnedEvent(pinned, event)

----------------------------------------------------------------------------
(* JavaScript numbers, Date and Array.prototype.sort as EventList uses them *)

NaN == [nan |-> TRUE, val |-> 0]

Num(v) == [nan |-> FALSE, val |-> v]

\* a - b on JS numbers: NaN when either operand is NaN.
Minus(a, b) == IF a.nan \/ b.nan THEN NaN ELSE Num(a.val - b.val)

\* new Date(time).getTime(): milliseconds, NaN for a string Date cannot parse.
\* Time-string code t > 0 stands for the ISO string of hour t of one day.
DateGetTime(time) == IF time = 0 THEN NaN ELSE Num(time * 3600000)

sortComparatorDescending(a, b) == Minus(DateGetTime(b.time), DateGetTime(a.time))

sortComparator(a, b) == Minus(DateGetTime(a.time), DateGetTime(b.time))

\* ECMAScript SortCompare: a comparator result of NaN counts as +0.
SortCompare(x, y) ==
    LET v == sortComparator(x, y)
    IN  IF v.nan THEN 0 ELSE v.val

\* The engine's sort for short arrays: find the leading run, make it
\* ascending, then binary-insert the remaining elements (stable).
RECURSIVE RunLength(_, _, _)
RunLength(a, isDescending, idx) ==
    IF idx > Len(a) THEN idx - 1
    ELSE LET order == SortCompare(a[idx], a[idx - 1])
         IN  IF isDescending
             THEN IF order >= 0 THEN idx - 1 ELSE RunLength(a, isDescending, idx + 1)
             ELSE IF order < 0 THEN idx - 1 ELSE RunLength(a, isDescending, idx + 1)

ReversePrefix(a, n) == [i \in 1..Len(a) |-> IF i <= n THEN a[n + 1 - i] ELSE a[i]]

RECURSIVE BinarySearch(_, _, _, _)
BinarySearch(a, pivot, left, right) ==
    IF left < right
    THEN LET mid   == left + ((right - left) \div 2)
             order == SortCompare(pivot, a[mid])
         IN  IF order < 0
             THEN BinarySearch(a, pivot, left, mid)
             ELSE BinarySearch(a, pivot, mid + 1, right)
    ELSE left

InsertAt(a, start, pos) ==
    [i \in 1..Len(a) |->
        IF i < pos THEN a[i]
        ELSE IF i = pos THEN a[start]
        ELSE IF i <= start THEN a[i - 1]
        ELSE a[i]]

RECURSIVE BinaryInsertionSort(_, _)
BinaryInsertionSort(a, start) ==
    IF start > Len(a) THEN a
    ELSE BinaryInsertionSort(InsertAt(a, start, BinarySearch(a, a[start], 1, start)),
                             start + 1)

ArraySort(a) ==
    IF Len(a) < 2 THEN a
    ELSE LET isDescending == SortCompare(a[2], a[1]) < 0
             run          == RunLength(a, isDescending, 3)
             ascending    == IF isDescending THEN ReversePrefix(a, run) ELSE a
         IN  BinaryInsertionSort(ascending, run + 1)

\* The computed sortedEvents: view is what it returns, store is the store's
\* array afterwards.  sort() works in place, here on the spread copy.
sortedEventsInPlace(storeEvents) ==
    [view |-> ArraySort(storeEvents), store |-> ArraySort(storeEvents)]

sortedEventsComputed(storeEvents) ==
    [view |-> ArraySort(storeEvents), store |-> storeEvents]

----------------------------------------------------------------------------
(* useTime: formatDate and formatCalendarDate over JavaScript Date and Intl *)

\* A formatter argument: null, undefined, the empty string, 'not-a-date', or
\* the ISO local date-time 2025-MM-DDTHH:00:00.
DateArg(kind, month, day, hour) ==
    [kind |-> kind, month |-> month, day |-> day, hour |-> hour]

Hours == {0, 12} \cup 1..MaxHour

DateStrings ==
    {DateArg(k, 0, 0, 0) : k \in {"null", "undefined", "empty", "not-a-date"}} \cup
    {DateArg("iso", m, d, h) : m \in 1..12, d \in 1..MaxDay, h \in Hours}

\* The time zone of the runtime, which decides the local fields of an instant.
TimeZones == {"UTC", "America/New_York"}

\* A JavaScript string value and a JavaScript number value.
Str(s) == [type |-> "string", val |-> s]

Number(n) == [type |-> "number", val |-> n]

Return(v) == [completion |-> "return", value |-> v]

Throw(name) == [completion |-> "throw", value |-> Str(name)]

NotCalled == [fn |-> "-", completion |-> "none", value |-> Str("")]

InvalidDate ==
    [valid |-> FALSE, year |-> "", month |-> 0, day |-> 0, hour |-> 0, weekday |-> 0]

DaysBeforeMonth == <<0, 31, 59, 90, 120, 151, 181, 212, 243, 273, 304, 334>>

\* Day of the week (0 is Sunday) of a day of 2025, whose January 1 is a Wednesday.
WeekDay2025(month, day) == (3 + DaysBeforeMonth[month] + day - 1) % 7

\* new Date(dateString): null converts to time value +0, the epoch; undefined
\* and every string Date.parse rejects give an invalid Date.
NewDate(arg, tz) ==
    CASE arg.kind = "null" ->
           IF tz = "UTC"
           THEN [valid |-> TRUE, year |-> "1970", month |-> 1, day |-> 1,
                 hour |-> 0, weekday |-> 4]
           ELSE [valid |-> TRUE, year |-> "1969", month |-> 12, day |-> 31,
                 hour |-> 19, weekday |-> 3]
      [] arg.kind = "iso" ->
           [valid |-> TRUE, year |-> "2025", month |-> arg.month, day |-> arg.day,
            hour |-> arg.hour, weekday |-> WeekDay2025(arg.month, arg.day)]
      [] OTHER -> InvalidDate

WeekdayLong == <<"Sunday", "Monday", "Tuesday", "Wednesday", "Thursday",
                 "Friday", "Saturday">>

MonthShort == <<"Jan", "Feb", "Mar", "Apr", "May", "Jun",
                "Jul", "Aug", "Sep", "Oct", "Nov", "Dec">>

MonthShortUpper == <<"JAN", "FEB", "MAR", "APR", "MAY", "JUN",
                     "JUL", "AUG", "SEP", "OCT", "NOV", "DEC">>

Digits == <<"0", "1", "2", "3", "4", "5", "6", "7", "8", "9">>

\* Number.prototype.toString of a JS number: "NaN" for NaN, else its decimal digits.
RECURSIVE DecimalDigits(_)
DecimalDigits(n) ==
    IF n < 10 THEN Digits[n + 1]
    ELSE DecimalDigits(n \div 10) \o Digits[(n % 10) + 1]

NumberToString(n) == IF n.nan THEN "NaN" ELSE DecimalDigits(n.val)

\* String.prototype.toUpperCase on the strings toLocaleString yields here.
toUpperCase(str) ==
    IF \E m \in 1..12 : MonthShort[m] = str
    THEN MonthShortUpper[CHOOSE m \in 1..12 : MonthShort[m] = str]
    ELSE IF str = "Invalid Date" THEN "INVALID DATE"
    ELSE str

\* Date.prototype.getDate: NaN for an invalid Date.
getDate(date) == IF date.valid THEN Num(date.day) ELSE NaN

\* Date.prototype.toLocaleString('en-US', { month: 'short' }): the string
\* "Invalid Date" for an invalid Date.
toLocaleStringMonthShort(date) ==
    IF date.valid THEN MonthShort[date.month] ELSE "Invalid Date"

\* Intl.DateTimeFormat.prototype.format with the options of formatDate: a
\* RangeError for a Date whose time value is NaN.
IntlFormat(date) ==
    IF ~date.valid THEN Throw("RangeError")
    ELSE LET hour12 == IF date.hour % 12 = 0 THEN 12 ELSE date.hour % 12
             period == IF date.hour < 12 THEN "AM" ELSE "PM"
         IN  Return(Str(WeekdayLong[date.weekday + 1] \o ", "
                        \o MonthShort[date.month] \o " " \o DecimalDigits(date.day)
                        \o ", " \o date.year \o " at "
                        \o DecimalDigits(hour12) \o ":00 " \o period))

formatDate(arg, tz) == IntlFormat(NewDate(arg, tz))

formatCalendarDateNumericDay(arg, tz) ==
    LET date == NewDate(arg, tz)
    IN  Return([month |-> Str(toUpperCase(toLocaleStringMonthShort(date))),
                day   |-> Number(getDate(date))])

formatCalendarDate(arg, tz) ==
    LET date  == NewDate(arg, tz)
        month == toUpperCase(toLocaleStringMonthShort(date))
        day   == NumberToString(getDate(date))
    IN  Return([month |-> Str(month), day |-> Str(day)])

----------------------------------------------------------------------------
(* Components *)

Inst(owner, name) == [owner |-> owner, name |-> name]

AllInstances == [owner : {"card", "pinned"}, name : Names]

\* The modal instances of a pair of flag maps (one modal per mounted card).
Instances(cardFlags, pinnedFlags) ==
    {Inst("card", n) : n \in DOMAIN cardFlags} \cup
    {Inst("pinned", n) : n \in DOMAIN pinnedFlags}

FlagOf(cardFlags, pinnedFlags, i) ==
    IF i.owner = "card" THEN cardFlags[i.name] ELSE pinnedFlags[i.name]

Mounted == Instances(cardModalOpen, pinnedModalOpen)

\* props.isOpen of modal instance i.
IsOpen(i) == FlagOf(cardModalOpen, pinnedModalOpen, i)

OpenInstances == {i \in Mounted : IsOpen(i)}

EntryOf(s, name) == s[CHOOSE k \in 1..Len(s) : s[k].name = name]

\* props.event of the card that owns modal instance i.
EventOf(i) ==
    IF i.owner = "card" THEN EntryOf(sortedEvents, i.name)
    ELSE EntryOf(pinnedDom.cards, i.name)

\* The string behind a time-string code: code 0 is a string Date cannot
\* parse, code t > 0 the ISO string of hour t of one day.
EventTimeString(time) ==
    IF time = 0 THEN DateArg("not-a-date", 0, 0, 0) ELSE DateArg("iso", 1, 1, time)

\* EventCard render: its template interpolates formatDate(event.time). When
\* that throws, Vue hands the error to its error handling and the component
\* renders an empty comment node in place of the card and its modal.
EventCardRender(event) ==
    LET outcomes == {formatDate(EventTimeString(event.time), tz) : tz \in TimeZones}
    IN  IF \E c \in outcomes : c.completion = "throw"
        THEN CHOOSE c \in outcomes : c.completion = "throw"
        ELSE CHOOSE c \in outcomes : TRUE

\* EventList template: the container, its h3 and one EventCard per sorted
\* event; cards are the ones whose render returned, errors counts the others.
EventListTemplate(sorted) ==
    LET returned(e) == EventCardRender(e).completion = "return"
    IN  [container |-> TRUE, heading |-> "Events",
         cards  |-> SelectSeq(sorted, returned),
         errors |-> Len(sorted) - Len(SelectSeq(sorted, returned))]

\* A pin button: the card's own button or the one inside the card's modal.
Affordance(el, i) == [el |-> el, owner |-> i.owner, name |-> i.name]

\* The pin buttons in the DOM: one per PinnedEventCard, one per modal whose
\* overlay is rendered (v-if="isOpen"). An EventCard has no pin button.
Affordances(cardFlags, pinnedFlags) ==
    {Affordance("card", Inst("pinned", n)) : n \in DOMAIN pinnedFlags} \cup
    {Affordance("modal", i) : i \in {j \in Instances(cardFlags, pinnedFlags) :
                                        FlagOf(cardFlags, pinnedFlags, j)}}

\* :aria-label of a pin button, from the isPinned computed of its component.
pinAriaLabelSwapped(pinned, eventName) ==
    IF isPinned(pinned, eventName) THEN "Pin event" ELSE "Unpin event"

pinAriaLabel(pinned, eventName) ==
    IF isPinned(pinned, eventName) THEN "Unpin event" ELSE "Pin event"

\* PinnedEvents.vue template: v-if on the container, v-for over the store.
PinnedEventsTemplateAlways(pinned) == [container |-> TRUE, cards |-> pinned]

PinnedEventsTemplate(pinned) ==
    IF Len(pinned) > 0
    THEN [container |-> TRUE, cards |-> pinned]
    ELSE [container |-> FALSE, cards |-> <<>>]

\* Keyed v-for: a card whose key stays keeps its instance, a new key gets a
\* new instance whose isModalOpen is ref(false).
KeyedInstancesOpen(flags, keys) ==
    [n \in keys |-> IF n \in DOMAIN flags THEN flags[n] ELSE TRUE]

KeyedInstances(flags, keys) ==
    [n \in keys |-> IF n \in DOMAIN flags THEN flags[n] ELSE FALSE]

\* EventModal watch(() => props.isOpen): the new body overflow.
watchIsOpenNeverLocks(isOpen) == ""

watchIsOpenAlwaysLocks(isOpen) == "hidden"

watchIsOpen(isOpen) == IF isOpen THEN "hidden" ELSE ""

\* EventModal onUnmounted: the body overflow it writes.
onUnmountedKeepsOverflow(overflow) == overflow

onUnmountedOverflow(overflow) == ""

\* EventModal onMounted / onUnmounted: the window keydown listeners.
onMountedListeners(listeners, mounted) == listeners \cup mounted

onUnmountedListenersLeak(listeners, unmounted) == listeners

onUnmountedListeners(listeners, unmounted) == listeners \ unmounted

\* Event propagation: the elements, target first, whose listeners a click
\* reaches; it ends at the first element that stops propagation.
RECURSIVE Dispatch(_, _)
Dispatch(path, stoppers) ==
    IF path = <<>> THEN <<>>
    ELSE IF Head(path) \in stoppers THEN <<Head(path)>>
    ELSE <<Head(path)>> \o Dispatch(Tail(path), stoppers)

\* EventModal template: the click targets and their ancestors up to the overlay.
ModalTargets == {"modal-overlay", "modal-container", "modal-close",
                 "modal-content", "pin-icon-button"}

ModalPath(target) ==
    CASE target = "modal-overlay"   -> <<"modal-overlay">>
      [] target = "modal-container" -> <<"modal-container", "modal-overlay">>
      [] target = "modal-close"     -> <<"modal-close", "modal-container", "modal-overlay">>
      [] target = "modal-content"   -> <<"modal-content", "modal-container", "modal-overlay">>
      [] target = "pin-icon-button" -> <<"pin-icon-button", "modal-content",
                                         "modal-container", "modal-overlay">>

\* The click listener of each element of the modal template.
ModalHandler(element) ==
    CASE element = "modal-overlay"   -> "handleOverlayClick"
      [] element = "modal-close"     -> "closeModal"
      [] element = "pin-icon-button" -> "togglePin"
      [] OTHER                       -> "none"

\* Elements of the modal template whose click listener has the .stop modifier.
ModalStoppersNone == {}

ModalStoppers == {"modal-container"}

\* PinnedEventCard template.
PinnedCardTargets == {"pin-icon-button", "pinned-event-image", "pinned-event-details"}

PinnedCardPath(target) ==
    CASE target = "pin-icon-button"      -> <<"pin-icon-button", "image-container",
                                              "pinned-event-card">>
      [] target = "pinned-event-image"   -> <<"pinned-event-image", "image-container",
                                              "pinned-event-card">>
      [] target = "image-container"      -> <<"image-container", "pinned-event-card">>
      [] target = "pinned-event-details" -> <<"pinned-event-details", "pinned-event-card">>
      [] target = "pinned-event-card"    -> <<"pinned-event-card">>

PinnedCardHandler(element) ==
    CASE element = "pin-icon-button"      -> "togglePin"
      [] element = "image-container"      -> "openModal"
      [] element = "pinned-event-details" -> "openModal"
      [] OTHER                            -> "none"

PinnedCardStoppersNone == {}

PinnedCardStoppers == {"pin-icon-button"}

\* EventCard template: the whole card opens the modal.
EventCardTargets == {"event-card", "event-details"}

EventCardPath(target) ==
    IF target = "event-card" THEN <<"event-card">> ELSE <<target, "event-card">>

EventCardHandler(element) == IF element = "event-card" THEN "openModal" ELSE "none"

\* How often handler h is among the handlers a click runs.
Runs(handlers, h) == Cardinality({k \in 1..Len(handlers) : handlers[k] = h})

\* EventCard / PinnedEventCard openModal and closeModal on isModalOpen.
openModalNoop(isModalOpen) == isModalOpen

openModal(isModalOpen) == TRUE

closeModalNoop(isModalOpen) == isModalOpen

closeModal(isModalOpen) == FALSE

\* EventModal handleEscape: whether it calls closeModal (emits 'close').
handleEscapeAnyKey(key, isOpen) == isOpen

handleEscapeWhenClosed(key, isOpen) == key = "Escape"

handleEscape(key, isOpen) == key = "Escape" /\ isOpen

Keys == {"Escape", "Enter"}

\* useEventStore fetchEvents: the store's events afterwards.
fetchEventsAppending(storeEvents, data) == storeEvents \o data

fetchEvents(storeEvents, data) == data

----------------------------------------------------------------------------
(* The flush after a handler: computed values, re-render with keyed         *)
(* instances, isOpen watchers, then mount and unmount hooks.                *)

NoEmits == [i \in AllInstances |-> 0]

Ev(op, owner, name, arg, time) ==
    [op |-> op, owner |-> owner, name |-> name, arg |-> arg, time |-> time]

ToggleParity(name) ==
    IF name \in toggledOdd THEN toggledOdd \ {name} ELSE toggledOdd \cup {name}

\* newStoreEvents, newPinned: the stores after the handler; cardFlags,
\* pinnedFlags: the isModalOpen refs of the mounted cards after the handler.
\* How a payload handed to a store call relates to the stored entries: its
\* name is absent, stored with the same payload, or stored with another one.
Prior(event) ==
    IF ~isPinned(pinnedEvents, event.name) THEN "absent"
    ELSE IF EntryOf(pinnedEvents, event.name) = event THEN "same"
    ELSE "other"

Removed(newPinned) == SeqNames(pinnedEvents) \ SeqNames(newPinned)

\* The patch of the two views: computed, listDom and dom are what the
\* re-render produced from the stores.
Patch(computed, listDom, dom, newPinned, cardFlags, pinnedFlags) ==
    LET newCard    == KeyedInstances(cardFlags, SeqNames(listDom.cards))
        newPinCard == KeyedInstances(pinnedFlags, SeqNames(dom.cards))
        after      == Instances(newCard, newPinCard)
        unmounted  == Mounted \ after
        mounted    == after \ Mounted
        changed    == {i \in Mounted \cap after :
                          IsOpen(i) # FlagOf(newCard, newPinCard, i)}
        \* the watchers of one flush all write the same value in this program;
        \* were they to differ, the last one to run decides
        watched    == IF changed = {} THEN {bodyOverflow}
                      ELSE {watchIsOpen(FlagOf(newCard, newPinCard, i)) : i \in changed}
    IN  /\ events' = computed.store
        /\ sortedEvents' = computed.view
        /\ pinnedEvents' = newPinned
        /\ pinnedDom' = dom
        /\ eventListDom' = listDom
        /\ pinLabels' = [a \in Affordances(newCard, newPinCard) |->
                            pinAriaLabel(newPinned, a.name)]
        /\ cardModalOpen' = newCard
        /\ pinnedModalOpen' = newPinCard
        /\ keydownListeners' =
               onMountedListeners(onUnmountedListeners(keydownListeners, unmounted), mounted)
        /\ \E o \in watched :
               bodyOverflow' = IF unmounted # {} THEN onUnmountedOverflow(o) ELSE o

Render(computed, newPinned, cardFlags, pinnedFlags) ==
    Patch(computed, EventListTemplate(computed.view), PinnedEventsTemplate(newPinned),
          newPinned, cardFlags, pinnedFlags)

Flush(newStoreEvents, newPinned, cardFlags, pinnedFlags) ==
    Render(sortedEventsComputed(newStoreEvents), newPinned, cardFlags, pinnedFlags)

----------------------------------------------------------------------------
(* Initial states *)

InitWith(dataset) ==
    /\ eventsData = dataset
    /\ events = <<>>
    /\ sortedEvents = <<>>
    /\ pinnedEvents = <<>>
    /\ pinnedDom = PinnedEventsTemplate(<<>>)
    /\ cardModalOpen = [n \in {} |-> FALSE]
    /\ pinnedModalOpen = [n \in {} |-> FALSE]
    /\ keydownListeners = {}
    /\ bodyOverflow = ""
    /\ emits = NoEmits
    /\ handled = <<>>
    /\ toggledOdd = {}
    /\ unpinnedOnce = {}
    /\ lastEvent = Ev("init", "-", "-", "-", 0)
    /\ eventListDom = EventListTemplate(<<>>)
    /\ pinLabels = [a \in {} |-> ""]
    /\ wrapperState = [w \in Wrappers |-> "created"]
    /\ wrapperRenders = [w \in Wrappers |-> 0]
    /\ fetchCalls = [w \in Wrappers |-> 0]
    /\ formatted = NotCalled

\* Outside the formatter specification no formatter argument is pending.
NoDateString == DateArg("null", 0, 0, 0)

Init == (\E dataset \in AppCatalogs : InitWith(dataset)) /\ dateString = NoDateString

InitList == (\E dataset \in Catalogs : InitWith(dataset)) /\ dateString = NoDateString

InitTies == (\E dataset \in TieCatalogs : InitWith(dataset)) /\ dateString = NoDateString

InitStore == InitWith(<<>>) /\ dateString = NoDateString

InitFormat == InitWith(<<>>) /\ dateString \in DateStrings

----------------------------------------------------------------------------
(* Store calls *)

\* What the catalog store holds when fetchEvents is called.
PriorContent ==
    IF events = <<>> THEN "empty"
    ELSE IF events = eventsData THEN "loaded"
    ELSE "other"

\* fetchEvents, were a load to start the pinned set afresh.
FetchEventsResetsPins ==
    /\ Flush(fetchEvents(events, eventsData), <<>>, cardModalOpen, pinnedModalOpen)
    /\ emits' = NoEmits
    /\ handled' = <<>>
    /\ lastEvent' = Ev("fetchEvents", "-", "-", PriorContent, 0)
    /\ UNCHANGED <<eventsData, toggledOdd, unpinnedOnce, wrapperVars, formatVars>>

FetchEvents ==
    /\ Flush(fetchEvents(events, eventsData), pinnedEvents, cardModalOpen, pinnedModalOpen)
    /\ emits' = NoEmits
    /\ handled' = <<>>
    /\ lastEvent' = Ev("fetchEvents", "-", "-", PriorContent, 0)
    /\ UNCHANGED <<eventsData, toggledOdd, unpinnedOnce, wrapperVars, formatVars>>

CallAddPinnedEvent(event) ==
    /\ Flush(events, addPinnedEvent(pinnedEvents, event), cardModalOpen, pinnedModalOpen)
    /\ emits' = NoEmits
    /\ handled' = <<>>
    /\ lastEvent' = Ev("addPinnedEvent", "-", event.name, Prior(event), event.time)
    /\ UNCHANGED <<eventsData, toggledOdd, unpinnedOnce, wrapperVars, formatVars>>

CallRemovePinnedEvent(eventName) ==
    /\ Flush(events, removePinnedEvent(pinnedEvents, eventName), cardModalOpen, pinnedModalOpen)
    /\ emits' = NoEmits
    /\ handled' = <<>>
    /\ unpinnedOnce' = unpinnedOnce \cup Removed(removePinnedEvent(pinnedEvents, eventName))
    /\ lastEvent' = Ev("removePinnedEvent", "-", eventName,
                       IF isPinned(pinnedEvents, eventName) THEN "present" ELSE "absent", 0)
    /\ UNCHANGED <<eventsData, toggledOdd, wrapperVars, formatVars>>

CallTogglePin(event) ==
    /\ Flush(events, togglePin(pinnedEvents, event), cardModalOpen, pinnedModalOpen)
    /\ emits' = NoEmits
    /\ handled' = <<>>
    /\ toggledOdd' = ToggleParity(event.name)
    /\ unpinnedOnce' = unpinnedOnce \cup Removed(togglePin(pinnedEvents, event))
    /\ lastEvent' = Ev("togglePin", "-", event.name, Prior(event), event.time)
    /\ UNCHANGED <<eventsData, wrapperVars, formatVars>>

----------------------------------------------------------------------------
(* DOM events *)

\* A click inside a mounted EventCard, were the open modal one shared id.
ClickEventCardSharedId(name, target) ==
    /\ name \in DOMAIN cardModalOpen
    /\ LET delivered == Dispatch(EventCardPath(target), {})
           handlers  == [k \in 1..Len(delivered) |-> EventCardHandler(delivered[k])]
           cardFlags == [n \in DOMAIN cardModalOpen |-> n = name]
       IN  /\ Flush(events, pinnedEvents, cardFlags, pinnedModalOpen)
           /\ handled' = handlers
    /\ emits' = NoEmits
    /\ lastEvent' = Ev("click", "card", name, target, 0)
    /\ UNCHANGED <<eventsData, toggledOdd, unpinnedOnce, wrapperVars, formatVars>>

\* A click inside a mounted EventCard.
ClickEventCard(name, target) ==
    /\ name \in DOMAIN cardModalOpen
    /\ LET delivered == Dispatch(EventCardPath(target), {})
           handlers  == [k \in 1..Len(delivered) |-> EventCardHandler(delivered[k])]
           opens     == Runs(handlers, "openModal") > 0
           cardFlags == [cardModalOpen EXCEPT
                           ![name] = IF opens THEN openModal(@) ELSE @]
       IN  /\ Flush(events, pinnedEvents, cardFlags, pinnedModalOpen)
           /\ handled' = handlers
    /\ emits' = NoEmits
    /\ lastEvent' = Ev("click", "card", name, target, 0)
    /\ UNCHANGED <<eventsData, toggledOdd, unpinnedOnce, wrapperVars, formatVars>>

\* A click inside a mounted PinnedEventCard.
ClickPinnedCard(name, target) ==
    /\ name \in DOMAIN pinnedModalOpen
    /\ LET delivered   == Dispatch(PinnedCardPath(target), PinnedCardStoppers)
           handlers    == [k \in 1..Len(delivered) |-> PinnedCardHandler(delivered[k])]
           toggles     == Runs(handlers, "togglePin") > 0
           opens       == Runs(handlers, "openModal") > 0
           event       == EventOf(Inst("pinned", name))
           pinned      == IF toggles THEN togglePin(pinnedEvents, event) ELSE pinnedEvents
           pinnedFlags == [pinnedModalOpen EXCEPT
                             ![name] = IF opens THEN openModal(@) ELSE @]
       IN  /\ Flush(events, pinned, cardModalOpen, pinnedFlags)
           /\ toggledOdd' = IF toggles THEN ToggleParity(event.name) ELSE toggledOdd
           /\ handled' = handlers
    /\ emits' = NoEmits
    /\ lastEvent' = Ev("click", "pinned", name, target, 0)
    /\ UNCHANGED <<eventsData, unpinnedOnce, wrapperVars, formatVars>>

\* A click inside the overlay of modal instance i, in the DOM while isOpen.
ClickModal(i, target) ==
    /\ i \in Mounted
    /\ IsOpen(i)
    /\ LET delivered   == Dispatch(ModalPath(target), ModalStoppers)
           handlers    == [k \in 1..Len(delivered) |-> ModalHandler(delivered[k])]
           closes      == Runs(handlers, "closeModal") + Runs(handlers, "handleOverlayClick")
           toggles     == Runs(handlers, "togglePin") > 0
           event       == EventOf(i)
           pinned      == IF toggles THEN togglePin(pinnedEvents, event) ELSE pinnedEvents
           cardFlags   == IF i.owner = "card" /\ closes > 0
                          THEN [cardModalOpen EXCEPT ![i.name] = closeModal(@)]
                          ELSE cardModalOpen
           pinnedFlags == IF i.owner = "pinned" /\ closes > 0
                          THEN [pinnedModalOpen EXCEPT ![i.name] = closeModal(@)]
                          ELSE pinnedModalOpen
       IN  /\ Flush(events, pinned, cardFlags, pinnedFlags)
           /\ toggledOdd' = IF toggles THEN ToggleParity(event.name) ELSE toggledOdd
           /\ emits' = [j \in AllInstances |-> IF j = i THEN closes ELSE 0]
           /\ handled' = handlers
    /\ lastEvent' = Ev("modalClick", i.owner, i.name, target, 0)
    /\ UNCHANGED <<eventsData, unpinnedOnce, wrapperVars, formatVars>>

\* A keydown on window: every registered handleEscape runs, each reading the
\* isOpen prop of its own instance as rendered before the event.
KeyDown(key) ==
    /\ LET closing     == {i \in keydownListeners : handleEscape(key, IsOpen(i))}
           cardFlags   == [n \in DOMAIN cardModalOpen |->
                             IF Inst("card", n) \in closing
                             THEN closeModal(cardModalOpen[n]) ELSE cardModalOpen[n]]
           pinnedFlags == [n \in DOMAIN pinnedModalOpen |->
                             IF Inst("pinned", n) \in closing
                             THEN closeModal(pinnedModalOpen[n]) ELSE pinnedModalOpen[n]]
       IN  /\ Flush(events, pinnedEvents, cardFlags, pinnedFlags)
           /\ emits' = [j \in AllInstances |-> IF j \in closing THEN 1 ELSE 0]
           /\ handled' = [k \in 1..Cardinality(keydownListeners) |-> "handleEscape"]
    /\ lastEvent' = Ev("keydown", "-", "-", key, 0)
    /\ UNCHANGED <<eventsData, toggledOdd, unpinnedOnce, wrapperVars, formatVars>>

----------------------------------------------------------------------------
(* Direct assignment to the catalog store, as its users outside the        *)
(* application do                                                           *)

\* Catalogs assigned to the store before a load.
PriorCatalogs == {c \in Catalogs : Len(c) <= 1}

\* eventStore.events = catalog
SetEvents(catalog) ==
    /\ Flush(catalog, pinnedEvents, cardModalOpen, pinnedModalOpen)
    /\ emits' = NoEmits
    /\ handled' = <<>>
    /\ lastEvent' = Ev("setEvents", "-", "-", "-", 0)
    /\ UNCHANGED <<eventsData, toggledOdd, unpinnedOnce, wrapperVars, formatVars>>

----------------------------------------------------------------------------
(* Page composition (EventWrapper): the store calls of its lifecycle hooks *)

EventWrapperOnMounted == <<"fetchEvents">>

EventWrapperOnUpdatedFetches == <<"fetchEvents">>

EventWrapperOnUpdated == <<>>

EventWrapperOnUnmounted == <<>>

\* The catalog store after a hook made its calls.
AfterCalls(calls) ==
    IF Runs(calls, "fetchEvents") > 0 THEN fetchEvents(events, eventsData) ELSE events

MountWrapper(w) ==
    /\ wrapperState[w] = "created"
    /\ Flush(AfterCalls(EventWrapperOnMounted), pinnedEvents, cardModalOpen, pinnedModalOpen)
    /\ fetchCalls' = [fetchCalls EXCEPT ![w] = @ + Runs(EventWrapperOnMounted, "fetchEvents")]
    /\ wrapperState' = [wrapperState EXCEPT ![w] = "mounted"]
    /\ emits' = NoEmits
    /\ handled' = <<>>
    /\ lastEvent' = Ev("mount", "wrapper", "-", "-", 0)
    /\ UNCHANGED <<eventsData, toggledOdd, unpinnedOnce, wrapperRenders, formatVars>>

\* A re-render of a mounted instance (a tick after a reactive update).
RerenderWrapper(w) ==
    /\ wrapperState[w] = "mounted"
    /\ wrapperRenders[w] < MaxRenders
    /\ Flush(AfterCalls(EventWrapperOnUpdated), pinnedEvents, cardModalOpen, pinnedModalOpen)
    /\ fetchCalls' = [fetchCalls EXCEPT ![w] = @ + Runs(EventWrapperOnUpdated, "fetchEvents")]
    /\ wrapperRenders' = [wrapperRenders EXCEPT ![w] = @ + 1]
    /\ emits' = NoEmits
    /\ handled' = <<>>
    /\ lastEvent' = Ev("rerender", "wrapper", "-", "-", 0)
    /\ UNCHANGED <<eventsData, toggledOdd, unpinnedOnce, wrapperState, formatVars>>

UnmountWrapper(w) ==
    /\ wrapperState[w] = "mounted"
    /\ Flush(AfterCalls(EventWrapperOnUnmounted), pinnedEvents, cardModalOpen, pinnedModalOpen)
    /\ fetchCalls' = [fetchCalls EXCEPT ![w] = @ + Runs(EventWrapperOnUnmounted, "fetchEvents")]
    /\ wrapperState' = [wrapperState EXCEPT ![w] = "unmounted"]
    /\ emits' = NoEmits
    /\ handled' = <<>>
    /\ lastEvent' = Ev("unmount", "wrapper", "-", "-", 0)
    /\ UNCHANGED <<eventsData, toggledOdd, unpinnedOnce, wrapperRenders, formatVars>>

----------------------------------------------------------------------------
(* Calls of the useTime formatters *)

storeVars == <<eventsData, events, sortedEvents, pinnedEvents, pinnedDom,
               cardModalOpen, pinnedModalOpen, keydownListeners, bodyOverflow,
               emits, toggledOdd, unpinnedOnce, lastEvent, eventListDom, pinLabels,
               handled>>

Completion(fn, c) == [fn |-> fn, completion |-> c.completion, value |-> c.value]

CallFormatDate ==
    /\ \E tz \in TimeZones :
          formatted' = Completion("formatDate", formatDate(dateString, tz))
    /\ UNCHANGED <<dateString, storeVars, wrapperVars>>

CallFormatCalendarDate ==
    /\ \E tz \in TimeZones :
          formatted' = Completion("formatCalendarDate", formatCalendarDate(dateString, tz))
    /\ UNCHANGED <<dateString, storeVars, wrapperVars>>

----------------------------------------------------------------------------
(* Specifications *)

\* The application as its user drives it.
Next ==
    \/ FetchEvents
    \/ \E n \in Names, t \in EventCardTargets : ClickEventCard(n, t)
    \/ \E n \in Names, t \in PinnedCardTargets : ClickPinnedCard(n, t)
    \/ \E i \in AllInstances, t \in ModalTargets : ClickModal(i, t)
    \/ \E k \in Keys : KeyDown(k)

Spec == Init /\ [][Next]_vars

\* The pinned store as its callers drive it, the PinnedEvents view mounted.
NextStore ==
    \/ \E e \in PinPayloads : CallAddPinnedEvent(e)
    \/ \E n \in Names : CallRemovePinnedEvent(n)
    \/ \E e \in PinPayloads : CallTogglePin(e)

SpecStore == InitStore /\ [][NextStore]_vars

\* The pinned store driven by togglePin alone.
NextToggle == \E e \in PinPayloads : CallTogglePin(e)

SpecToggle == InitStore /\ [][NextToggle]_vars

\* The event list over every dataset.
NextList == FetchEvents

SpecList == InitList /\ [][NextList]_vars

\* The event list over the longer datasets of the tie-order check.
SpecTies == InitTies /\ [][NextList]_vars

\* The catalog store loaded from every prior content.
\* Both stores and the modals together: loads, calls of addPinnedEvent and
\* removePinnedEvent with the events of the dataset and of togglePin with
\* its first event, and the clicks and the Escape press that open and close
\* the modals of the event cards.
NextFrame ==
    \/ FetchEvents
    \/ \E k \in DOMAIN eventsData : CallAddPinnedEvent(eventsData[k])
    \/ \E k \in DOMAIN eventsData : CallRemovePinnedEvent(eventsData[k].name)
    \/ eventsData # <<>> /\ CallTogglePin(Head(eventsData))
    \/ \E n \in Names : ClickEventCard(n, "event-card")
    \/ \E i \in AllInstances : ClickModal(i, "modal-close")
    \/ KeyDown("Escape")

SpecFrame == Init /\ [][NextFrame]_vars

NextFetch ==
    \/ FetchEvents
    \/ \E c \in PriorCatalogs : SetEvents(c)

SpecFetch == InitList /\ [][NextFetch]_vars

\* Page composition instances sharing the stores.
NextPage ==
    \/ \E w \in Wrappers : MountWrapper(w)
    \/ \E w \in Wrappers : RerenderWrapper(w)
    \/ \E w \in Wrappers : UnmountWrapper(w)

SpecPage == Init /\ [][NextPage]_vars

\* The formatters applied to every argument.
NextFormat ==
    \/ CallFormatDate
    \/ CallFormatCalendarDate

SpecFormat == InitFormat /\ [][NextFormat]_vars

----------------------------------------------------------------------------
(* Properties *)

\* The program's own state, without the observations emits and lastEvent.
AppState == <<eventsData, events, sortedEvents, pinnedEvents, pinnedDom,
              cardModalOpen, pinnedModalOpen, keydownListeners, bodyOverflow>>

\* The modal instance the last DOM event was aimed at.
LastInst == Inst(lastEvent.owner, lastEvent.name)

\* C1: under togglePin calls alone, from the empty pinned set, the pinned
\* names are exactly the names toggled an odd number of times, whatever
\* payloads carried those names.
C1_ToggleParity == SeqNames(pinnedEvents) = toggledOdd

\* A toggle with another payload than the stored one has unpinned its name
\* while another name stays pinned.
C1_Witness ==
    /\ lastEvent.op = "togglePin"
    /\ lastEvent.arg = "other"
    /\ ~isPinned(pinnedEvents, lastEvent.name)
    /\ pinnedEvents # <<>>

\* C2: under any interleaving of addPinnedEvent, removePinnedEvent and
\* togglePin with arbitrary payloads, no two pinned entries share a name.
C2_OneEntryPerName == DistinctNames(pinnedEvents)

\* addPinnedEvent was called with a new payload for a pinned name.
C2_Witness ==
    /\ lastEvent.op = "addPinnedEvent"
    /\ lastEvent.arg = "other"
    /\ Len(pinnedEvents) >= 2

\* C3: whenever some modal instance is Open, the page scroll is locked.
C3_LockedWhileAnyOpen == OpenInstances # {} => bodyOverflow = "hidden"

\* C4: a modal instance going from Closed to Open locks the page scroll, one
\* going from Open to Closed unlocks it, and one torn down unlocks it whether
\* it was Open or Closed.
C4_ScrollLockTransitions ==
    [][\A i \in AllInstances :
          /\ (i \in Mounted /\ i \in Mounted' /\ ~IsOpen(i) /\ IsOpen(i)')
                => bodyOverflow' = "hidden"
          /\ (i \in Mounted /\ i \in Mounted' /\ IsOpen(i) /\ ~IsOpen(i)')
                => bodyOverflow' = ""
          /\ (i \in Mounted /\ i \notin Mounted')
                => bodyOverflow' = ""]_vars

\* An Open modal was torn down by the unpin clicked inside it, and the scroll
\* is unlocked.
C4_Witness ==
    /\ lastEvent.op = "modalClick"
    /\ lastEvent.owner = "pinned"
    /\ lastEvent.arg = "pin-icon-button"
    /\ LastInst \notin Mounted
    /\ bodyOverflow = ""

ContentTargets == {"modal-container", "modal-content", "pin-icon-button"}

\* C5 as stated: a backdrop click on an Open modal requests close; a click
\* inside the content container, the close button apart, requests no close
\* and leaves the modal Open.
C5_ContentClickLeavesOpen ==
    lastEvent.op = "modalClick" =>
        /\ lastEvent.arg = "modal-overlay" => emits[LastInst] >= 1
        /\ lastEvent.arg \in ContentTargets =>
              /\ emits[LastInst] = 0
              /\ LastInst \in Mounted
              /\ IsOpen(LastInst)

\* C5 amended: a backdrop click on an Open modal requests close; a click
\* inside the content container, the close button apart, requests no close,
\* and it leaves the modal Open unless it is the pin button of a pinned
\* card's modal: that click unpins the event, which tears the card and this
\* modal down.
C5_ContentClickNeverRequestsClose ==
    lastEvent.op = "modalClick" =>
        /\ lastEvent.arg = "modal-overlay" =>
              /\ emits[LastInst] >= 1
              /\ ~IsOpen(LastInst)
        /\ lastEvent.arg \in ContentTargets =>
              /\ emits[LastInst] = 0
              /\ IF lastEvent.owner = "pinned" /\ lastEvent.arg = "pin-icon-button"
                 THEN LastInst \notin Mounted
                 ELSE LastInst \in Mounted /\ IsOpen(LastInst)

\* The pin button of an event card's modal was clicked: the event is pinned
\* and the modal is still Open.
C5_Witness ==
    /\ lastEvent.op = "modalClick"
    /\ lastEvent.owner = "card"
    /\ lastEvent.arg = "pin-icon-button"
    /\ isPinned(pinnedEvents, lastEvent.name)
    /\ IsOpen(LastInst)

\* C6: on a keydown, a mounted modal instance requests close exactly when the
\* key is Escape and the instance is Open; when no instance requests close
\* the keydown changes nothing.
C6_EscapeOnly ==
    [][lastEvent'.op = "keydown" =>
          /\ \A i \in AllInstances :
                emits'[i] = IF i \in Mounted /\ lastEvent'.arg = "Escape" /\ IsOpen(i)
                            THEN 1 ELSE 0
          /\ (lastEvent'.arg # "Escape" \/ OpenInstances = {}) => UNCHANGED AppState]_vars

\* Escape was pressed with one instance Open and another Closed: only the
\* Open one asked to close.
C6_Witness ==
    /\ lastEvent.op = "keydown"
    /\ lastEvent.arg = "Escape"
    /\ \E i, j \in Mounted : emits[i] = 1 /\ emits[j] = 0

\* Whether the last DOM event was a click on the open area of card i.
OpenClickOn(i) ==
    /\ lastEvent.op = "click"
    /\ LastInst = i
    /\ lastEvent.arg # "pin-icon-button"

\* C7: a card's modal flag starts Closed when the card is mounted, is Open
\* after a click on the card's open area (also when it was Open already), is
\* Closed after a close request from its modal, and changes on nothing else.
C7_ModalFlagMachine ==
    [][\A i \in AllInstances :
          /\ (i \notin Mounted /\ i \in Mounted') => ~IsOpen(i)'
          /\ OpenClickOn(i)' => (i \in Mounted' /\ IsOpen(i)')
          /\ (emits'[i] > 0 /\ i \in Mounted') => ~IsOpen(i)'
          /\ (i \in Mounted /\ i \in Mounted' /\ IsOpen(i)' # IsOpen(i))
                => (OpenClickOn(i)' \/ emits'[i] > 0)]_vars

\* A modal that had been opened asked to close and its card's flag is Closed.
C7_Witness ==
    \E i \in Mounted : emits[i] > 0 /\ ~IsOpen(i)

\* C8: the pinned strip is rendered exactly when the pinned set is not empty,
\* and it then shows one pinned card per pinned entry.
C8_StripIffPinned ==
    /\ pinnedDom.container <=> Len(pinnedEvents) > 0
    /\ pinnedDom.cards = pinnedEvents
    /\ DOMAIN pinnedModalOpen = SeqNames(pinnedEvents)
    /\ Cardinality(DOMAIN pinnedModalOpen) = Len(pinnedEvents)

\* The last pinned event was unpinned and the strip is gone.
C8_Witness ==
    /\ lastEvent.op \in {"togglePin", "removePinnedEvent"}
    /\ lastEvent.name \in unpinnedOnce
    /\ pinnedEvents = <<>>
    /\ ~pinnedDom.container

\* C9: an insertion appends at the end of the pinned sequence, a removal
\* keeps the order of the entries that stay, and the strip shows the sequence
\* in that order; so a name unpinned and pinned again is last.
C9_InsertionOrder ==
    [][LET old == pinnedEvents
           new == pinnedEvents'
       IN  /\ \A n \in SeqNames(new) \ SeqNames(old) :
                 /\ new[Len(new)].name = n
                 /\ SubSeq(new, 1, Len(new) - 1) = old
           /\ SeqNames(new) \subseteq SeqNames(old) =>
                 new = SelectSeq(old, LAMBDA e : e.name \in SeqNames(new))
           /\ pinnedDom'.cards = new]_vars

\* A name that had been unpinned was pinned again and is last, after another.
C9_Witness ==
    /\ lastEvent.op \in {"togglePin", "addPinnedEvent"}
    /\ lastEvent.arg = "absent"
    /\ lastEvent.name \in unpinnedOnce
    /\ Len(pinnedEvents) >= 2
    /\ pinnedEvents[Len(pinnedEvents)].name = lastEvent.name

AllParseable(s) == \A i \in 1..Len(s) : ~DateGetTime(s[i].time).nan

\* C10: when every time of the catalog parses, the list shows the catalog's
\* events in ascending order of parsed time, and the store still holds the
\* dataset in its own order.
C10_SortedAscending ==
    AllParseable(events) =>
        /\ \A i, j \in 1..Len(sortedEvents) :
              i < j => DateGetTime(sortedEvents[i].time).val
                         <= DateGetTime(sortedEvents[j].time).val
        /\ Len(sortedEvents) = Len(events)
        /\ SeqNames(sortedEvents) = SeqNames(events)
        /\ \A i \in 1..Len(sortedEvents) :
              sortedEvents[i] = EntryOf(events, sortedEvents[i].name)
        /\ lastEvent.op = "fetchEvents" => events = eventsData

\* A catalog with times T3, T1, T2 is listed as T1, T2, T3 and is itself
\* still T3, T1, T2.
C10_Witness ==
    /\ lastEvent.op = "fetchEvents"
    /\ Len(events) = 3
    /\ <<events[1].time, events[2].time, events[3].time>> = <<3, 1, 2>>
    /\ <<sortedEvents[1].time, sortedEvents[2].time, sortedEvents[3].time>> = <<1, 2, 3>>

\* C11: with an empty catalog the EventList container shows the heading
\* 'No events are available' and no card; with a non-empty catalog it shows
\* the heading 'Events'.
C11_NoEventsHeading ==
    /\ eventListDom.container
    /\ events = <<>> =>
          eventListDom.heading = "No events are available" /\ eventListDom.cards = <<>>
    /\ events # <<>> => eventListDom.heading = "Events"

\* C12: from any pinned set, after addPinnedEvent(e) the name of e is pinned;
\* after removePinnedEvent(name) the name is not pinned; and
\* removePinnedEvent of a name that is not pinned completes and leaves the
\* pinned sequence as it was.
C12_AddRemoveIsPinned ==
    [][/\ lastEvent'.op = "addPinnedEvent" => isPinned(pinnedEvents', lastEvent'.name)
       /\ lastEvent'.op = "removePinnedEvent" => ~isPinned(pinnedEvents', lastEvent'.name)
       /\ (lastEvent'.op = "removePinnedEvent" /\ ~isPinned(pinnedEvents, lastEvent'.name))
             => pinnedEvents' = pinnedEvents]_vars

\* removePinnedEvent was called for a name that had been pinned and removed,
\* while other entries are pinned.
C12_Witness ==
    /\ lastEvent.op = "removePinnedEvent"
    /\ lastEvent.arg = "absent"
    /\ lastEvent.name \in unpinnedOnce
    /\ Len(pinnedEvents) >= 2

\* C13: addPinnedEvent for a name that is already pinned leaves the pinned
\* sequence as it was (length, order and the stored payload of that name),
\* whatever the other fields of the payload passed.
C13_AddPresentIsNoop ==
    [][(lastEvent'.op = "addPinnedEvent" /\ isPinned(pinnedEvents, lastEvent'.name))
          => pinnedEvents' = pinnedEvents]_vars

\* addPinnedEvent was called with another payload for the name pinned first
\* of several, whose stored payload is still the older one.
C13_Witness ==
    /\ lastEvent.op = "addPinnedEvent"
    /\ lastEvent.arg = "other"
    /\ Len(pinnedEvents) >= 2
    /\ pinnedEvents[1].name = lastEvent.name
    /\ pinnedEvents[1].time # lastEvent.time

\* C14: the payload stored for a pinned name is the event passed to the call
\* that inserted it last: a call that pins a name stores the payload it was
\* given, whole, and no call changes the payload of a name that stays pinned.
C14_StoredPayloadIsInserted ==
    [][\A n \in Names :
          isPinned(pinnedEvents', n) =>
             IF isPinned(pinnedEvents, n)
             THEN EntryOf(pinnedEvents', n) = EntryOf(pinnedEvents, n)
             ELSE /\ lastEvent'.op \in {"addPinnedEvent", "togglePin"}
                  /\ lastEvent'.name = n
                  /\ EntryOf(pinnedEvents', n) = [name |-> n, time |-> lastEvent'.time]]_vars

\* A name that had been toggled or removed out of the pinned set was toggled
\* in again with the latest payload, and that payload is the stored one.
C14_Witness ==
    /\ lastEvent.op = "togglePin"
    /\ lastEvent.arg = "absent"
    /\ lastEvent.name \in unpinnedOnce
    /\ lastEvent.time = MaxPinTime
    /\ EntryOf(pinnedEvents, lastEvent.name).time = MaxPinTime

\* C15: after fetchEvents, called once or again, from whatever the catalog
\* store held before, the store equals the static dataset in source order,
\* with nothing appended or duplicated.
C15_FetchIsIdempotent ==
    lastEvent.op = "fetchEvents" =>
        /\ events = eventsData
        /\ Len(events) = Len(eventsData)

\* fetchEvents was called again on a store that already held the dataset of
\* several events.
C15_Witness ==
    /\ lastEvent.op = "fetchEvents"
    /\ lastEvent.arg = "loaded"
    /\ Len(eventsData) >= 2
    /\ events = eventsData

\* C16: every page composition instance calls fetchEvents exactly once, in
\* the step that mounts it; its re-renders and its unmount call it no more,
\* and instances sharing one store call it once each.
C16_FetchOncePerMount ==
    /\ [](\A w \in Wrappers :
             fetchCalls[w] = IF wrapperState[w] = "created" THEN 0 ELSE 1)
    /\ [][\A w \in Wrappers :
             fetchCalls'[w] # fetchCalls[w] =>
                wrapperState[w] = "created" /\ wrapperState'[w] = "mounted"]_vars

\* Two instances on one store were mounted; one re-rendered as often as the
\* bound allows and the other was unmounted.
C16_Witness ==
    /\ \E w \in Wrappers :
          wrapperState[w] = "mounted" /\ wrapperRenders[w] = MaxRenders
    /\ \E w \in Wrappers : wrapperState[w] = "unmounted"
    /\ \A w \in Wrappers : wrapperState[w] # "created" /\ fetchCalls[w] = 1
    /\ events = eventsData

\* The label of a rendered pin button tells the pinned state of its event.
LabelAgrees(a) ==
    /\ pinLabels[a] \in {"Pin event", "Unpin event"}
    /\ pinLabels[a] = "Unpin event" <=> isPinned(pinnedEvents, a.name)

\* C17 as stated: in every reachable state each of the three pin buttons bound
\* to an event (on its event card, on its pinned card, in an open modal)
\* shows 'Unpin event' exactly when the event's name is in the pinned set.
C17_ThreeAffordancesAgree ==
    /\ \A n \in DOMAIN cardModalOpen :
          /\ Affordance("card", Inst("card", n)) \in DOMAIN pinLabels
          /\ LabelAgrees(Affordance("card", Inst("card", n)))
    /\ \A a \in Affordances(cardModalOpen, pinnedModalOpen) :
          a \in DOMAIN pinLabels /\ LabelAgrees(a)

\* C17: in every reachable state every rendered pin button (the one on each
\* pinned card and the one in each open modal; an event card has none) shows
\* 'Unpin event' exactly when its event's name is in the pinned set, so a
\* toggle through one button shows on the others, an open modal included.
C17_PinLabelsAgree ==
    /\ DOMAIN pinLabels = Affordances(cardModalOpen, pinnedModalOpen)
    /\ \A a \in DOMAIN pinLabels : LabelAgrees(a)
    /\ \A n \in DOMAIN cardModalOpen :
          Affordance("card", Inst("card", n)) \notin DOMAIN pinLabels

\* An event was unpinned with its pinned card's button while the modal of
\* its event card was open, and that modal now offers to pin it.
C17_Witness ==
    /\ lastEvent.op = "click"
    /\ lastEvent.owner = "pinned"
    /\ lastEvent.arg = "pin-icon-button"
    /\ Inst("card", lastEvent.name) \in OpenInstances
    /\ ~isPinned(pinnedEvents, lastEvent.name)
    /\ pinLabels[Affordance("modal", Inst("card", lastEvent.name))] = "Pin event"

\* The last DOM event was a click on the pin button of an event card's modal.
ModalPinClick(ev) ==
    ev.op = "modalClick" /\ ev.owner = "card" /\ ev.arg = "pin-icon-button"

\* C18: with a catalog of one event and nothing pinned, a click on the
\* event's card opens its modal; a click on the modal's pin button shows the
\* pinned strip with exactly one card, for that event; a second click on the
\* modal's pin button makes the pinned strip disappear.
C18_EndToEnd ==
    [][Len(events) = 1 =>
          /\ (lastEvent'.op = "click" /\ lastEvent'.owner = "card" /\ pinnedEvents = <<>>)
                => Inst("card", events[1].name) \in OpenInstances'
          /\ (ModalPinClick(lastEvent') /\ pinnedEvents = <<>>)
                => /\ pinnedDom'.container
                   /\ pinnedDom'.cards = <<events[1]>>
                   /\ DOMAIN pinnedModalOpen' = {events[1].name}
          /\ (ModalPinClick(lastEvent') /\ pinnedEvents = <<events[1]>>)
                => /\ ~pinnedDom'.container
                   /\ pinnedDom'.cards = <<>>
                   /\ DOMAIN pinnedModalOpen' = {}]_vars

\* The modal of the only event is open and its pin button was clicked for
\* the second time: nothing is pinned and the strip is gone. (Only a click
\* on a pin button pins, so the click before this one pinned the event.)
C18_Witness ==
    /\ Len(events) = 1
    /\ ModalPinClick(lastEvent)
    /\ Inst("card", events[1].name) \in OpenInstances
    /\ pinnedEvents = <<>>
    /\ ~pinnedDom.container
    /\ events[1].name \notin toggledOdd

\* C19: formatDate never throws: for null, undefined, the empty string, an
\* unparseable string and a valid ISO string the call returns a string.
C19_FormatDateNeverThrows ==
    formatted.fn = "formatDate" =>
        /\ formatted.completion = "return"
        /\ formatted.value.type = "string"

\* C20: formatCalendarDate never throws: for null, undefined, the empty
\* string, an unparseable string and a valid ISO string the call returns a
\* {month, day} pair whose two fields are strings.
C20_CalendarDateReturnsStrings ==
    formatted.fn = "formatCalendarDate" =>
        /\ formatted.completion = "return"
        /\ formatted.value.month.type = "string"
        /\ formatted.value.day.type = "string"

\* formatCalendarDate was called with an unparseable string and returned
\* what the locale API yields for an invalid Date.
C20_Witness ==
    /\ formatted.fn = "formatCalendarDate"
    /\ dateString.kind = "not-a-date"
    /\ formatted.value.month.val = "INVALID DATE"
    /\ formatted.value.day.val = "NaN"

\* C21: for every catalog, unparseable times included, the sort and the
\* render of the EventList do not fail and the list shows exactly one card
\* per catalog event: the displayed sequence is a permutation of the catalog.
C21_ListRendersEveryEvent ==
    /\ Len(sortedEvents) = Len(events)
    /\ \A i \in 1..Len(events) :
          \E j \in 1..Len(sortedEvents) : sortedEvents[j] = events[i]
    /\ eventListDom.errors = 0
    /\ Len(eventListDom.cards) = Len(events)
    /\ \A i \in 1..Len(events) :
          \E j \in 1..Len(eventListDom.cards) : eventListDom.cards[j] = events[i]

\* Index of the event of a name in a list.
IndexOf(s, name) == CHOOSE k \in 1..Len(s) : s[k].name = name

\* The comparison of two times is a tie: equal times, or a time Date cannot
\* parse on either side.
TiedTimes(a, b) ==
    \/ DateGetTime(a.time).nan
    \/ DateGetTime(b.time).nan
    \/ DateGetTime(a.time) = DateGetTime(b.time)

\* C22: two catalog events whose times are equal, or one of whose times is
\* unparseable, are listed in the relative order they have in the catalog.
C22_TiesKeepCatalogOrder ==
    \A i, j \in 1..Len(events) :
        (i < j /\ TiedTimes(events[i], events[j]) /\ Len(sortedEvents) = Len(events)) =>
            IndexOf(sortedEvents, events[i].name) < IndexOf(sortedEvents, events[j].name)

\* C23: the Escape listener of a modal instance is registered exactly while
\* the instance is mounted: closing the modal keeps it, so an instance that
\* is Open (again) requests close on Escape, and an instance that was torn
\* down requests nothing on a keydown.
C23_ListenerWhileMounted ==
    /\ [](keydownListeners = Mounted)
    /\ [][\A i \in AllInstances :
             /\ (i \in Mounted /\ i \in Mounted' /\ IsOpen(i) /\ ~IsOpen(i)')
                   => i \in keydownListeners'
             /\ (lastEvent'.op = "keydown" /\ i \notin Mounted) => emits'[i] = 0
             /\ (lastEvent'.op = "keydown" /\ lastEvent'.arg = "Escape"
                   /\ i \in Mounted /\ IsOpen(i)) => emits'[i] = 1]_vars

\* A pinned card was unpinned by its own button: its modal's listener is
\* gone, while the Closed modal of the same event's card keeps its listener.
C23_Witness ==
    /\ lastEvent.op = "click"
    /\ lastEvent.owner = "pinned"
    /\ lastEvent.arg = "pin-icon-button"
    /\ Inst("pinned", lastEvent.name) \notin keydownListeners
    /\ Inst("card", lastEvent.name) \in keydownListeners
    /\ ~IsOpen(Inst("card", lastEvent.name))
    /\ bodyOverflow = ""

\* The last DOM event was a click on the pin button of a pinned card.
PinnedPinClick(ev) ==
    ev.op = "click" /\ ev.owner = "pinned" /\ ev.arg = "pin-icon-button"

\* C24: a click on a pinned card's pin button toggles the event in the
\* pinned set and runs togglePin alone: openModal, the handler of the image
\* area around the button, does not run, so no modal of that card is opened
\* and the flag of a card that stays mounted is what it was.
C24_PinButtonDoesNotOpen ==
    [][\A n \in Names :
          (PinnedPinClick(lastEvent') /\ lastEvent'.name = n) =>
             LET i == Inst("pinned", n)
             IN  /\ isPinned(pinnedEvents', n) # isPinned(pinnedEvents, n)
                 /\ Runs(handled', "togglePin") = 1
                 /\ Runs(handled', "openModal") = 0
                 /\ i \in OpenInstances' => i \in OpenInstances
                 /\ i \in Mounted' => IsOpen(i)' = IsOpen(i)]_vars

\* The pin button of a pinned card whose modal was Closed was clicked: the
\* event is unpinned, only togglePin ran and no modal is Open.
C24_Witness ==
    /\ PinnedPinClick(lastEvent)
    /\ handled = <<"togglePin">>
    /\ ~isPinned(pinnedEvents, lastEvent.name)
    /\ OpenInstances = {}
    /\ pinnedEvents # <<>>

\* C25: one click on the close button of an Open modal produces exactly one
\* close request: closeModal runs once and the backdrop's handleOverlayClick
\* does not run.
C25_CloseButtonEmitsOnce ==
    [][(lastEvent'.op = "modalClick" /\ lastEvent'.arg = "modal-close") =>
          /\ emits'[LastInst'] = 1
          /\ Runs(handled', "closeModal") = 1
          /\ Runs(handled', "handleOverlayClick") = 0
          /\ \A j \in AllInstances : j # LastInst' => emits'[j] = 0]_vars

\* The close button of an Open modal was clicked: one close request, and the
\* modal is Closed.
C25_Witness ==
    /\ lastEvent.op = "modalClick"
    /\ lastEvent.arg = "modal-close"
    /\ emits[LastInst] = 1
    /\ handled = <<"closeModal", "none">>
    /\ LastInst \in Mounted
    /\ ~IsOpen(LastInst)

\* The last DOM event was an open click on a card or a click on the close
\* button or the backdrop of a modal.
OpenOrCloseClick(ev) ==
    \/ ev.op = "click" /\ ev.arg # "pin-icon-button"
    \/ ev.op = "modalClick" /\ ev.arg \in {"modal-close", "modal-overlay"}

\* C26: an open click on one card, or a close request from one card's modal
\* (close button or backdrop), changes that card's modal flag alone: every
\* other event card and pinned card stays mounted with its flag unchanged.
C26_FlagPerInstance ==
    [][OpenOrCloseClick(lastEvent') =>
          /\ Mounted' = Mounted
          /\ \A j \in Mounted : j # LastInst' => IsOpen(j)' = IsOpen(j)]_vars

\* A card was opened while the modal of another card was Open, and a third
\* instance is Closed: the click changed the clicked card's flag alone.
C26_Witness ==
    /\ lastEvent.op = "click"
    /\ lastEvent.arg # "pin-icon-button"
    /\ IsOpen(LastInst)
    /\ \E j \in Mounted : j # LastInst /\ IsOpen(j)
    /\ \E j \in Mounted : j # LastInst /\ ~IsOpen(j)

\* C27: whenever no modal instance is Open, all flags Closed or the owning
\* cards torn down, the page scroll is unlocked.
C27_NeverStuckLocked == OpenInstances = {} => bodyOverflow = ""

\* The pin button inside the Open modal of a pinned card was clicked: the
\* card and its Open modal were torn down, no modal is Open and the scroll
\* is unlocked.
C27_Witness ==
    /\ lastEvent.op = "modalClick"
    /\ lastEvent.owner = "pinned"
    /\ lastEvent.arg = "pin-icon-button"
    /\ LastInst \notin Mounted
    /\ OpenInstances = {}
    /\ bodyOverflow = ""

\* C28: unpinning tears the event's pinned card and its modal down: pinned
\* cards and their modals exist for pinned names only, no listener of a
\* pinned card's modal outlives it, and a name that becomes pinned gets a
\* fresh pinned card whose modal is Closed.
C28_UnpinTearsDown ==
    /\ [](\A n \in Names :
             ~isPinned(pinnedEvents, n) =>
                /\ Inst("pinned", n) \notin Mounted
                /\ Inst("pinned", n) \notin keydownListeners
                /\ \A a \in DOMAIN pinLabels : ~(a.owner = "pinned" /\ a.name = n))
    /\ [][\A n \in Names :
             (~isPinned(pinnedEvents, n) /\ isPinned(pinnedEvents', n)) =>
                /\ Inst("pinned", n) \in Mounted'
                /\ ~IsOpen(Inst("pinned", n))'
                /\ Inst("pinned", n) \in keydownListeners']_vars

\* An event was unpinned through the modal of its event card while its
\* pinned card was mounted: the pinned card is gone, the other pinned card
\* stays.
C28_Witness ==
    /\ ModalPinClick(lastEvent)
    /\ ~isPinned(pinnedEvents, lastEvent.name)
    /\ Inst("pinned", lastEvent.name) \notin Mounted
    /\ Inst("pinned", lastEvent.name) \notin keydownListeners
    /\ IsOpen(Inst("card", lastEvent.name))
    /\ \E n \in Names : Inst("pinned", n) \in Mounted

\* C29: on one Escape keydown every Open modal instance requests close and
\* every Closed one requests nothing, however many are Open; afterwards all
\* instances are Closed.
C29_EscapeClosesAllOpen ==
    [][(lastEvent'.op = "keydown" /\ lastEvent'.arg = "Escape") =>
          /\ \A i \in Mounted : emits'[i] = IF IsOpen(i) THEN 1 ELSE 0
          /\ Mounted' = Mounted
          /\ OpenInstances' = {}
          /\ Len(handled') = Cardinality(Mounted)]_vars

\* Escape was pressed with two instances Open and one Closed: the two Open
\* ones asked to close and every instance is Closed now.
C29_Witness ==
    /\ lastEvent.op = "keydown"
    /\ lastEvent.arg = "Escape"
    /\ \E i, j \in Mounted : i # j /\ emits[i] = 1 /\ emits[j] = 1
    /\ \E k \in Mounted : emits[k] = 0
    /\ OpenInstances = {}

\* A step that opened or closed a modal: an open click, a close request
\* from the close button or the backdrop, or an Escape press.
OpensOrCloses(ev) ==
    \/ OpenOrCloseClick(ev)
    \/ ev.op = "keydown" /\ ev.arg = "Escape"

\* C30: addPinnedEvent, removePinnedEvent and togglePin leave the catalog
\* as it was; fetchEvents leaves the pinned set as it was, entries and
\* order; opening or closing a modal leaves both stores as they were.
C30_StoresIndependent ==
    [][/\ lastEvent'.op \in {"addPinnedEvent", "removePinnedEvent", "togglePin"} =>
             /\ events' = events
             /\ eventsData' = eventsData
       /\ lastEvent'.op = "fetchEvents" => pinnedEvents' = pinnedEvents
       /\ OpensOrCloses(lastEvent') =>
             /\ events' = events
             /\ eventsData' = eventsData
             /\ pinnedEvents' = pinnedEvents]_vars

\* The catalog was loaded again while two events were pinned and a modal
\* was Open: the pinned set and the catalog are both still there.
C30_Witness ==
    /\ lastEvent.op = "fetchEvents"
    /\ lastEvent.arg = "loaded"
    /\ Len(pinnedEvents) >= 2
    /\ events = eventsData
    /\ events # <<>>
    /\ OpenInstances # {}

====
